---- MODULE Spec2Model ----
(***************************************************************************)
(* A model of glide_client.py: the asynchronous client that multiplexes    *)
(* requests over one stream, correlates replies by callback index,         *)
(* delivers push notifications and defines the closing protocol.           *)
(*                                                                         *)
(* Every action is one run of a handler between two suspension points of   *)
(* the event loop.  _process_response and _process_push hold no await      *)
(* that suspends, so one frame is processed atomically.                    *)
(***************************************************************************)
EXTENDS Integers, Sequences, FiniteSets, TLC

\* ------------------------------------------------------------------ bounds
MaxRequests == 2      \* request calls of a run that only submits requests
MaxPush == 2          \* push frames the engine sends in a pub/sub run
MaxPulls == 3         \* pull calls the application makes in a pub/sub run
MaxMixed == 0         \* request calls of a pub/sub run
WideRequests == 3     \* MaxRequests of the wide runs (SpecWide)
WideMixed == 1        \* MaxMixed of the wide runs (SpecWide)
MaxClose == 2         \* times the application calls __aexit__
MaxFrames == 2        \* frames of the byte stream the demultiplexer reads

\* ------------------------------------------------------------- variables
VARIABLES
    phase,                        \* progress of __aenter__
    startErr,                     \* exception class __aenter__ raised
    stream,                       \* self._stream
    task_group,                   \* self._task_group
    task_exitstack,               \* self._task_exitstack
    demux,                        \* the _stream_demuxer task
    is_closed,                    \* self._is_closed
    close_pc,                     \* position of a running __aexit__
    closeCount,                   \* how many times __aexit__ was entered
    closeErr,                     \* exception class the last __aexit__ raised
    results,                      \* every Result object ever created
    pending_results,              \* self._pending_results
    available_callback_indexes,   \* self._available_callback_indexes
    spawned,                      \* _write_or_buffer_request tasks not yet run
    buffered_requests,            \* self._buffered_requests
    writer_lock,                  \* self._writer_lock
    writing,                      \* tasks inside stream.send
    batch,                        \* the batch of the stream.send in progress
    sent,                         \* what the stream has received, in order
    replied,                      \* requests the engine has answered
    lastResponse,                 \* the last frame _process_response handled
    pubsub_configured,            \* config._is_pubsub_configured()
    callback,                     \* config._get_pubsub_callback_and_context()[0]
    pubsub_lock,                  \* self._pubsub_lock
    pubsub_results,               \* self._pubsub_results
    pending_push_notifications,   \* self._pending_push_notifications
    callback_calls,               \* messages the callback was invoked with
    arrived,                      \* deliverable messages, in arrival order
    pulled,                       \* messages try_get_pubsub_message returned
    workload,                     \* how many calls and frames this run makes
    nPush,                        \* push frames sent so far
    nSubmit,                      \* request calls made so far
    nPull,                        \* pull calls made so far
    lastCall,                     \* the last public call and how it ended
    frames_in,                    \* the frames the engine writes
    stream_in,                    \* the bytes the engine writes, as a whole
    nRead,                        \* how many of them receive has returned
    remaining_read_bytes,         \* remaining_read_bytes of _stream_demuxer
    dispatched                    \* the frames handed to _process_*, in order

vars == <<phase, startErr, stream, task_group, task_exitstack, demux, is_closed,
          close_pc, closeCount, closeErr, results, pending_results,
          available_callback_indexes, spawned, buffered_requests, writer_lock,
          writing, batch, sent, replied, lastResponse, pubsub_configured, callback,
          pubsub_lock, pubsub_results, pending_push_notifications, callback_calls, arrived, pulled,
          workload, nPush, nSubmit, nPull, lastCall,
          frames_in, stream_in, nRead, remaining_read_bytes, dispatched>>

clientVars == <<phase, startErr, stream, task_group, task_exitstack, demux,
                is_closed, close_pc, closeCount, closeErr, results,
                pending_results, available_callback_indexes, spawned,
                buffered_requests, writer_lock, writing, batch, sent, replied,
                lastResponse, pubsub_configured, callback, pubsub_lock,
                pubsub_results, pending_push_notifications, callback_calls, arrived, pulled,
                workload, nPush, nSubmit, nPull, lastCall>>
demuxVars == <<frames_in, stream_in, nRead, remaining_read_bytes, dispatched>>

lifecycleVars == <<phase, startErr, stream, task_group, task_exitstack, demux,
                   is_closed, close_pc, closeCount, closeErr>>
tableVars == <<results, pending_results, available_callback_indexes>>
writerVars == <<spawned, buffered_requests, writer_lock, writing, batch, sent>>
engineVars == <<replied, lastResponse>>
configVars == <<pubsub_configured, callback, workload>>
countVars == <<nPush, nSubmit, nPull>>
pubsubVars == <<pubsub_lock, pubsub_results, pending_push_notifications,
                callback_calls, arrived, pulled>>

\* ---------------------------------------------------------------- values
\* A value or an exception: a tag and an argument (a payload or a message).
Val(tag, arg) == [tag |-> tag, arg |-> arg]
None == Val("None", 0)
OK == Val("OK", 0)

\* err_message of __aexit__: str(exc_val)
CloseMsg == 100

\* RequestErrorType values of the response protobuf
RequestErrorTypes == {"Unspecified", "ExecAbort", "Timeout", "Disconnect"}

\* A faulty variant: the Timeout branch is missing.
get_request_error_class_NoTimeout(error_type) ==
    IF error_type = "Disconnect" THEN "ConnectionError"
    ELSE IF error_type = "ExecAbort" THEN "ExecAbortError"
    ELSE "RequestError"

get_request_error_class(error_type) ==
    IF error_type = "Disconnect" THEN "ConnectionError"
    ELSE IF error_type = "ExecAbort" THEN "ExecAbortError"
    ELSE IF error_type = "Timeout" THEN "TimeoutError"
    ELSE IF error_type = "Unspecified" THEN "RequestError"
    ELSE "RequestError"

\* ------------------------------------------------------------ class Result
\* awaited: whether the call that created the Result reached result.wait().
NewResult(kind, idx, awaited) ==
    [kind |-> kind, idx |-> idx, awaited |-> awaited, done |-> FALSE,
     value |-> None, exception |-> None, writes |-> 0]

Result_success(r, value) ==
    [r EXCEPT !.value = value, !.done = TRUE, !.writes = @ + 1]

Result_failure(r, exception) ==
    [r EXCEPT !.exception = exception, !.done = TRUE, !.writes = @ + 1]

Result_is_done(r) == r.done

\* What Result.wait hands to the caller once the event is set.
Result_wait(r) == IF r.exception # None THEN r.exception ELSE r.value

\* ------------------------------------------------------------ the locks
\* A faulty variant: the lock is released on the normal path only.
held_after_finally_NormalPathOnly(raised) == raised

\* `try: ... finally: self._writer_lock.release()` and the same around
\* _pubsub_lock: whether the lock is still held once the protected operation
\* has ended, having raised or not.
held_after_finally(raised) == FALSE

\* ------------------------------------------------------- dict operations
DictPop(d, k) == [i \in DOMAIN d \ {k} |-> d[i]]
DictSet(d, k, v) == [i \in DOMAIN d \cup {k} |-> IF i = k THEN v ELSE d[i]]
DictValues(d) == {d[i] : i \in DOMAIN d}
EmptyDict == [i \in {} |-> 0]

SeqSet(s) == {s[i] : i \in 1..Len(s)}
Front(s) == SubSeq(s, 1, Len(s) - 1)
Last(s) == s[Len(s)]

\* --------------------------------------------------------------- workloads
\* What the application and the engine do in one run: a run of requests
\* only, or a pub/sub run with few requests.
WorkloadsOf(requests, mixed) ==
    {[requests |-> requests, pushes |-> 0, pulls |-> 0],
     [requests |-> mixed, pushes |-> MaxPush, pulls |-> MaxPulls]}

Workloads == WorkloadsOf(MaxRequests, MaxMixed)

\* The wide runs: enough requests for an index to be handed out a second
\* time, and a request beside the pulls of a pub/sub run.
WideWorkloads == WorkloadsOf(WideRequests, WideMixed)

\* ------------------------------------------------------------------ Init
\* The state after BaseClient.__init__; the configuration is an input.
InitClientOn(workloads) ==
    /\ phase = "connecting"
    /\ startErr = "none"
    /\ stream = "none"
    /\ task_group = "none"
    /\ task_exitstack = "none"
    /\ demux = "none"
    /\ is_closed = FALSE
    /\ close_pc = "idle"
    /\ closeCount = 0
    /\ closeErr = "none"
    /\ results = <<>>
    /\ pending_results = EmptyDict
    /\ available_callback_indexes = <<>>
    /\ spawned = {}
    /\ buffered_requests = <<>>
    /\ writer_lock = FALSE
    /\ writing = 0
    /\ batch = <<>>
    /\ sent = <<>>
    /\ replied = {}
    /\ lastResponse = [callback_idx |-> 0, field |-> "no frame", type |-> "none",
                       arg |-> 0]
    /\ workload \in workloads
    /\ pubsub_configured \in BOOLEAN
    /\ callback \in BOOLEAN
    /\ callback => pubsub_configured
    /\ workload.pulls = 0 => ~pubsub_configured
    /\ pubsub_lock = FALSE
    /\ pubsub_results = <<>>
    /\ pending_push_notifications = <<>>
    /\ callback_calls = <<>>
    /\ arrived = <<>>
    /\ pulled = <<>>
    /\ nPush = 0
    /\ nSubmit = 0
    /\ nPull = 0
    /\ lastCall = [op |-> "none", outcome |-> "none"]

InitClient == InitClientOn(Workloads)

InitDemuxer ==
    /\ nRead = 0
    /\ remaining_read_bytes = <<>>
    /\ dispatched = <<>>

Init ==
    /\ InitClient
    /\ InitDemuxer
    /\ frames_in = <<>>
    /\ stream_in = <<>>

\* ------------------------------------------------- the pending-call table
\* _get_result: a fresh Result stored under callback_idx, replacing what
\* the table held there.  The new Result's handle is Len(results) + 1.
get_result_table(table, callback_idx, handle) == DictSet(table, callback_idx, handle)

\* A faulty variant: the id freed first is reused first.
get_callback_index_OldestFirst(avail, table) ==
    IF Len(avail) > 0
    THEN <<Head(avail), Tail(avail)>>
    ELSE <<Cardinality(DOMAIN table), avail>>

\* _get_callback_index: <<the index, the free list afterwards>>
get_callback_index(avail, table) ==
    IF Len(avail) > 0
    THEN <<Last(avail), Front(avail)>>
    ELSE <<Cardinality(DOMAIN table), avail>>

Envelope(rid, idx) == [rid |-> rid, idx |-> idx]

\* TaskGroup.start_soon of _send_request: a new task when the group has not
\* exited; "RuntimeError" once it has exited.
start_soon_ok == task_group \in {"active", "cancelled"}

\* -------------------------------------------------------------- __aenter__
\* start_socket_listener_external / _create_uds_connection succeed.
CreateUdsConnection ==
    /\ phase = "connecting"
    /\ stream' = "open"
    /\ phase' = "connected"
    /\ UNCHANGED <<startErr, task_group, task_exitstack, demux, is_closed,
                   close_pc, closeCount, closeErr>>
    /\ UNCHANGED <<tableVars, writerVars, engineVars, configVars, pubsubVars,
                   countVars, lastCall>>
    /\ UNCHANGED demuxVars

\* init_callback raises ClosingError, or connect_unix times out: __aenter__
\* raises before self._stream is set.
StartupFailsBeforeStream ==
    /\ phase = "connecting"
    /\ phase' = "failed"
    /\ startErr' \in {"ClosingError", "TimeoutError"}
    /\ UNCHANGED <<stream, task_group, task_exitstack, demux, is_closed,
                   close_pc, closeCount, closeErr>>
    /\ UNCHANGED <<tableVars, writerVars, engineVars, configVars, pubsubVars,
                   countVars, lastCall>>
    /\ UNCHANGED demuxVars

\* The task group is entered, the demultiplexer started, and
\* _set_connection_configurations registers its Result under index 0 (a
\* ConnectionRequest has no callback_idx) and sends the request.
StartHandshake ==
    /\ phase = "connected"
    /\ phase' = "handshake"
    /\ task_group' = "active"
    /\ demux' = "running"
    /\ results' = Append(results, NewResult("handshake", 0, TRUE))
    /\ pending_results' = get_result_table(pending_results, 0, Len(results) + 1)
    /\ spawned' = spawned \cup {Envelope(Len(results) + 1, 0)}
    /\ UNCHANGED <<startErr, stream, task_exitstack, is_closed, close_pc,
                   closeCount, closeErr, available_callback_indexes,
                   buffered_requests, writer_lock, writing, batch, sent,
                   engineVars>>
    /\ UNCHANGED <<configVars, pubsubVars, countVars, lastCall>>
    /\ UNCHANGED demuxVars

HandshakeResult == results[1]

\* _set_connection_configurations resumes: OK makes the client Ready, any
\* other value raises ClosingError(result), a failed Result raises its own
\* exception; the exit stack then cancels the task group.  A demultiplexer
\* that raised cancels the host task the same way.
FinishHandshake ==
    /\ phase = "handshake"
    /\ \/ /\ Result_is_done(HandshakeResult)
          /\ Result_wait(HandshakeResult) = OK
          /\ phase' = "ready"
          /\ task_exitstack' = "set"
          /\ UNCHANGED <<startErr, task_group, demux, spawned>>
       \/ /\ Result_is_done(HandshakeResult)
          /\ Result_wait(HandshakeResult) # OK
          /\ phase' = "failed"
          /\ startErr' = IF HandshakeResult.exception # None
                         THEN HandshakeResult.exception.tag
                         ELSE "ClosingError"
          /\ task_group' = "exited"
          /\ demux' = IF demux = "running" THEN "cancelled" ELSE demux
          /\ spawned' = {}
          /\ UNCHANGED task_exitstack
       \/ /\ ~Result_is_done(HandshakeResult)
          /\ demux \in {"ClosingError", "ClosedResourceError"}
          /\ phase' = "failed"
          /\ startErr' = demux
          /\ task_group' = "exited"
          /\ spawned' = {}
          /\ UNCHANGED <<task_exitstack, demux>>
    /\ UNCHANGED <<stream, is_closed, close_pc, closeCount, closeErr>>
    /\ UNCHANGED <<tableVars, buffered_requests, writer_lock, writing, batch, sent,
                   engineVars, configVars, pubsubVars, countVars, lastCall>>
    /\ UNCHANGED demuxVars

\* ------------------------------------------------------ request submission
RequestKinds == {"command", "transaction", "script", "cluster_scan", "password"}

\* Whether the method starts with `if self._is_closed: raise ClosingError`:
\* _execute_command, _execute_transaction, _execute_script and _cluster_scan
\* do, _update_connection_password does not.
ChecksClosed(kind) == kind # "password"

Call(op, outcome) == [op |-> op, outcome |-> outcome]

\* One call of _execute_command / _execute_transaction / _execute_script /
\* _cluster_scan / _update_connection_password up to its first suspension:
\* the closed check, _get_callback_index, _get_result and _send_request.
Submit(kind) ==
    /\ phase = "ready"
    /\ nSubmit < workload.requests
    /\ nSubmit' = nSubmit + 1
    /\ IF ChecksClosed(kind) /\ is_closed
       THEN /\ lastCall' = Call(kind, "ClosingError")
            /\ UNCHANGED <<tableVars, spawned>>
       ELSE /\ LET got == get_callback_index(available_callback_indexes, pending_results)
                   handle == Len(results) + 1
               IN /\ available_callback_indexes' = got[2]
                  /\ results' = Append(results, NewResult("request", got[1], start_soon_ok))
                  /\ pending_results' = get_result_table(pending_results, got[1], handle)
                  /\ IF start_soon_ok
                     THEN /\ spawned' = spawned \cup {Envelope(handle, got[1])}
                          /\ lastCall' = Call(kind, "awaiting")
                     ELSE /\ lastCall' = Call(kind, "RuntimeError")
                          /\ UNCHANGED spawned
    /\ UNCHANGED <<lifecycleVars, buffered_requests, writer_lock, writing, batch, sent,
                   engineVars, configVars, pubsubVars, nPush, nPull>>
    /\ UNCHANGED demuxVars

\* ------------------------------------------------------- the buffered writer
StreamWritable == stream = "open" /\ task_group = "active"

\* A faulty variant: the lock is taken whether it is free or not.
try_acquire_Always(lock) == TRUE

\* `self._writer_lock.acquire(False)`: whether the lock was acquired
try_acquire(lock) == ~lock

\* A faulty variant: the request is put in front of the buffer.
buffer_append_InFront(buffer, request) == <<request>> \o buffer

\* `self._buffered_requests.append(request)`
buffer_append(buffer, request) == Append(buffer, request)

\* A _write_or_buffer_request task runs up to its first suspension: it
\* appends its request and, when it gets the writer lock, takes the whole
\* buffer as the batch of one stream.send.  A send that raises (closed
\* stream, cancelled task group) releases the lock and loses the batch.
WriteOrBufferRequest(e) ==
    /\ e \in spawned
    /\ spawned' = spawned \ {e}
    /\ IF ~try_acquire(writer_lock)
       THEN /\ buffered_requests' = buffer_append(buffered_requests, e)
            /\ UNCHANGED <<writer_lock, writing, batch, task_group>>
       ELSE /\ buffered_requests' = <<>>
            /\ IF StreamWritable
               THEN /\ writer_lock' = TRUE
                    /\ writing' = writing + 1
                    /\ batch' = buffer_append(buffered_requests, e)
                    /\ UNCHANGED task_group
               ELSE /\ task_group' = IF task_group = "active" THEN "cancelled"
                                     ELSE task_group
                    /\ writer_lock' = held_after_finally(TRUE)
                    /\ UNCHANGED <<writing, batch>>
    /\ UNCHANGED <<phase, startErr, stream, task_exitstack, demux, is_closed,
                   close_pc, closeCount, closeErr, tableVars, sent, engineVars,
                   configVars, pubsubVars, countVars, lastCall>>
    /\ UNCHANGED demuxVars

\* A faulty variant: the owner of the lock flushes once and releases.
owner_continues_Never(buffer) == FALSE

\* `while len(self._buffered_requests) > 0`
owner_continues(buffer) == Len(buffer) > 0

\* The stream.send of _write_buffered_requests_to_socket returns; the owner
\* of the lock loops while the buffer is not empty, then releases the lock.
WriteBufferedRequestsToSocket ==
    /\ writer_lock
    /\ IF StreamWritable
       THEN /\ sent' = sent \o batch
            /\ IF owner_continues(buffered_requests)
               THEN /\ batch' = buffered_requests
                    /\ buffered_requests' = <<>>
                    /\ UNCHANGED <<writer_lock, writing>>
               ELSE /\ batch' = <<>>
                    /\ writer_lock' = held_after_finally(FALSE)
                    /\ writing' = writing - 1
                    /\ UNCHANGED buffered_requests
            /\ UNCHANGED task_group
       ELSE /\ batch' = <<>>
            /\ writer_lock' = held_after_finally(TRUE)
            /\ writing' = writing - 1
            /\ task_group' = IF task_group = "active" THEN "cancelled"
                             ELSE task_group
            /\ UNCHANGED <<sent, buffered_requests>>
    /\ UNCHANGED <<phase, startErr, stream, task_exitstack, demux, is_closed,
                   close_pc, closeCount, closeErr, tableVars, spawned, engineVars,
                   configVars, pubsubVars, countVars, lastCall>>
    /\ UNCHANGED demuxVars

\* ------------------------------------------------------------ the engine
\* The reply frames the engine may send for a request it received: the
\* callback_idx of the request, and one of the fields of a Response.
Response(idx, field, type, arg) ==
    [callback_idx |-> idx, field |-> field, type |-> type, arg |-> arg]

RepliesTo(e) ==
    {Response(e.idx, f, "none", e.rid) :
        f \in {"resp_pointer", "constant_response", "closing_error", "none"}}
    \cup {Response(e.idx, "request_error", t, e.rid) : t \in RequestErrorTypes}

Unanswered == {e \in SeqSet(sent) : e.rid \notin replied}

\* `await self._stream.receive(...)` has returned, or can return, what the
\* engine wrote.  On a backend whose receive yields to the scheduler after a
\* read that succeeded at once, __aexit__ may run between the read and the
\* resumption of the demultiplexer: the chunk read (frames, or end of stream)
\* is then handled after the stream was closed, and only the next receive
\* raises ClosedResourceError.
ReadInHand == stream \in {"open", "closed"}

\* ------------------------------------------------------ _process_response
\* The Result a non-push frame resolves, after the write the frame asks for.
ResolveResult(r, response) ==
    IF response.field = "request_error"
    THEN Result_failure(r, Val(get_request_error_class(response.type), response.arg))
    ELSE IF response.field = "resp_pointer"
    THEN Result_success(r, Val("value", response.arg))
    ELSE IF response.field = "constant_response"
    THEN Result_success(r, OK)
    ELSE Result_success(r, None)

\* err_msg when the frame carries no closing_error: "Client Error - closing
\* due to unknown error. callback index: ..."
UnknownErrMsg == 101

\* A faulty variant: the message of the frame is not used.
err_msg_Unknown(response) == UnknownErrMsg

\* err_msg of _process_response
err_msg(response) ==
    IF response.field = "closing_error" THEN response.arg ELSE UnknownErrMsg

\* Whether the frame's index goes back to the free list.
RecyclesIndex(response) == response.field # "closing_error"

ProcessResponse(e, response) ==
    /\ demux = "running"
    /\ ReadInHand
    /\ e \in Unanswered
    /\ response \in RepliesTo(e)
    /\ replied' = replied \cup {e.rid}
    /\ lastResponse' = response
    /\ LET idx == response.callback_idx
           found == idx \in DOMAIN pending_results
       IN IF ~found
          THEN \* raise ClosingError: the demultiplexer task ends
               /\ demux' = "ClosingError"
               /\ task_group' = "cancelled"
               /\ UNCHANGED tableVars
          ELSE /\ pending_results' = DictPop(pending_results, idx)
               /\ available_callback_indexes' =
                     IF RecyclesIndex(response)
                     THEN Append(available_callback_indexes, idx)
                     ELSE available_callback_indexes
               /\ results' =
                     [results EXCEPT ![pending_results[idx]] =
                        IF response.field = "closing_error"
                        THEN Result_failure(@, Val("ClosingError", err_msg(response)))
                        ELSE ResolveResult(@, response)]
               /\ UNCHANGED <<demux, task_group>>
    /\ UNCHANGED <<phase, startErr, stream, task_exitstack, is_closed, close_pc,
                   closeCount, closeErr, writerVars, configVars, pubsubVars,
                   countVars, lastCall>>
    /\ UNCHANGED demuxVars

\* --------------------------------------------------------- _stream_demuxer
\* The engine closes its end: receive raises EndOfStream and the
\* demultiplexer raises ClosingError, whatever _is_closed is.
DemuxEndOfStream ==
    /\ demux = "running"
    /\ ReadInHand
    /\ demux' = "ClosingError"
    /\ task_group' = "cancelled"
    /\ UNCHANGED <<phase, startErr, stream, task_exitstack, is_closed, close_pc,
                   closeCount, closeErr, tableVars, writerVars, engineVars,
                   configVars, pubsubVars, countVars, lastCall>>
    /\ UNCHANGED demuxVars

\* The client closed the stream: receive raises ClosedResourceError, and
\* the loop ends when _is_closed is set and re-raises otherwise.
DemuxClosedResource ==
    /\ demux = "running"
    /\ stream = "closed"
    /\ demux' = IF is_closed THEN "exited" ELSE "ClosedResourceError"
    /\ task_group' = IF is_closed THEN task_group ELSE "cancelled"
    /\ UNCHANGED <<phase, startErr, stream, task_exitstack, is_closed, close_pc,
                   closeCount, closeErr, tableVars, writerVars, engineVars,
                   configVars, pubsubVars, countVars, lastCall>>
    /\ UNCHANGED demuxVars

\* ------------------------------------------------------------- push frames
NoPattern == "None"
Channel == "channel"
Pattern == "pattern"
\* the message body of the n-th push frame
Payload(n) == n

PubSubMsg(message, channel, pattern) ==
    [message |-> message, channel |-> channel, pattern |-> pattern]
\* the None that _notification_to_pubsub_message_safe returns
NoMsg == PubSubMsg(0, "None", "None")

MessageKinds == {"Message", "PMessage", "SMessage"}
SubscriptionKinds == {"PSubscribe", "Subscribe", "SSubscribe",
                      "Unsubscribe", "PUnsubscribe", "SUnsubscribe"}

PushFrame(closing_error, resp_pointer, kind, values) ==
    [closing_error |-> closing_error, resp_pointer |-> resp_pointer,
     kind |-> kind, values |-> values]

\* The n-th push frame the engine may send.
PushFrames(n) ==
    {PushFrame(FALSE, TRUE, "Message", <<Channel, Payload(n)>>),
     PushFrame(FALSE, TRUE, "PMessage", <<Pattern, Channel, Payload(n)>>),
     PushFrame(FALSE, TRUE, "Subscribe", <<Channel>>),
     PushFrame(FALSE, TRUE, "Disconnection", <<>>),
     PushFrame(TRUE, FALSE, "none", <<>>),
     PushFrame(FALSE, FALSE, "none", <<>>)}

\* A faulty variant: the pattern of a pattern message is left out.
notification_to_pubsub_message_safe_NoPattern(response) ==
    IF response.kind \in MessageKinds
    THEN IF response.kind = "PMessage"
         THEN PubSubMsg(response.values[3], response.values[2], NoPattern)
         ELSE PubSubMsg(response.values[2], response.values[1], NoPattern)
    ELSE NoMsg

notification_to_pubsub_message_safe(response) ==
    IF response.kind = "Disconnection" THEN NoMsg
    ELSE IF response.kind \in MessageKinds
    THEN IF response.kind = "PMessage"
         THEN PubSubMsg(response.values[3], response.values[2], response.values[1])
         ELSE PubSubMsg(response.values[2], response.values[1], NoPattern)
    ELSE IF response.kind \in SubscriptionKinds THEN NoMsg
    ELSE NoMsg

\* _complete_pubsub_results_safe: while both lists are non-empty, pop a
\* notification and decode it; for a message, pop a waiter and call its
\* set_result, which class Result does not define: AttributeError.
RECURSIVE complete_pubsub_results_safe(_, _)
complete_pubsub_results_safe(notifications, waiters) ==
    IF Len(notifications) > 0 /\ Len(waiters) > 0
    THEN IF notification_to_pubsub_message_safe(Head(notifications)) # NoMsg
         THEN [notifications |-> Tail(notifications), waiters |-> Tail(waiters),
               raised |-> "AttributeError"]
         ELSE complete_pubsub_results_safe(Tail(notifications), waiters)
    ELSE [notifications |-> notifications, waiters |-> waiters, raised |-> "none"]

\* A faulty variant: one notification is popped, whatever it decodes to.
pop_first_message_NoLoop(notifications) ==
    IF Len(notifications) > 0
    THEN [notifications |-> Tail(notifications),
          msg |-> notification_to_pubsub_message_safe(Head(notifications))]
    ELSE [notifications |-> notifications, msg |-> NoMsg]

\* The pop loop of try_get_pubsub_message: pop until a message decodes.
RECURSIVE pop_first_message(_)
pop_first_message(notifications) ==
    IF Len(notifications) > 0
    THEN IF notification_to_pubsub_message_safe(Head(notifications)) # NoMsg
         THEN [notifications |-> Tail(notifications),
               msg |-> notification_to_pubsub_message_safe(Head(notifications))]
         ELSE pop_first_message(Tail(notifications))
    ELSE [notifications |-> notifications, msg |-> NoMsg]

PushMalformed(response) == response.closing_error \/ ~response.resp_pointer

\* ------------------------------------------------------------ _process_push
\* `self._pubsub_lock.acquire()` is a blocking acquire of a threading.Lock by
\* the thread of the event loop: it returns only when the lock is free.
\* The callback is application code: it returns or raises, and what it
\* raises ends the demultiplexer task.
ProcessPush(response) ==
    /\ demux = "running"
    /\ ReadInHand
    /\ phase = "ready"
    /\ pubsub_configured
    /\ nPush < workload.pushes
    /\ response \in PushFrames(nPush + 1)
    /\ nPush' = nPush + 1
    /\ IF PushMalformed(response)
       THEN /\ demux' = "ClosingError"
            /\ task_group' = "cancelled"
            /\ UNCHANGED pubsubVars
       ELSE LET msg == notification_to_pubsub_message_safe(response)
                drained == complete_pubsub_results_safe(
                               Append(pending_push_notifications, response),
                               pubsub_results)
            IN /\ ~pubsub_lock
               /\ arrived' = IF msg # NoMsg THEN Append(arrived, msg) ELSE arrived
               /\ IF callback
                  THEN /\ callback_calls' = IF msg # NoMsg
                                            THEN Append(callback_calls, msg)
                                            ELSE callback_calls
                       /\ \E callback_raises \in IF msg # NoMsg THEN BOOLEAN
                                                  ELSE {FALSE} :
                             /\ demux' = IF callback_raises THEN "CallbackError"
                                         ELSE demux
                             /\ task_group' = IF callback_raises THEN "cancelled"
                                              ELSE task_group
                             /\ pubsub_lock' = held_after_finally(callback_raises)
                       /\ UNCHANGED <<pubsub_results, pending_push_notifications>>
                  ELSE /\ pending_push_notifications' = drained.notifications
                       /\ pubsub_results' = drained.waiters
                       /\ demux' = IF drained.raised = "none" THEN demux
                                   ELSE drained.raised
                       /\ task_group' = IF drained.raised = "none" THEN task_group
                                        ELSE "cancelled"
                       /\ pubsub_lock' = held_after_finally(drained.raised # "none")
                       /\ UNCHANGED callback_calls
               /\ UNCHANGED pulled
    /\ UNCHANGED <<phase, startErr, stream, task_exitstack, is_closed, close_pc,
                   closeCount, closeErr, tableVars, writerVars, engineVars,
                   configVars, nSubmit, nPull, lastCall>>
    /\ UNCHANGED demuxVars

\* ------------------------------------------------------------ the pull calls
\* The checks both pull calls start with: the exception class raised, or
\* "none".
\* A faulty variant: the callback is not looked at.
PullPrecondition_NoCallbackCheck ==
    IF is_closed THEN "ClosingError"
    ELSE IF ~pubsub_configured THEN "ConfigurationError"
    ELSE "none"

PullPrecondition ==
    IF is_closed THEN "ClosingError"
    ELSE IF ~pubsub_configured THEN "ConfigurationError"
    ELSE IF callback THEN "ConfigurationError"
    ELSE "none"

TryGetPubsubMessage ==
    /\ phase = "ready"
    /\ nPull < workload.pulls
    /\ nPull' = nPull + 1
    /\ IF PullPrecondition # "none"
       THEN /\ lastCall' = Call("try_get_pubsub_message", PullPrecondition)
            /\ UNCHANGED pubsubVars
       ELSE LET drained == complete_pubsub_results_safe(
                               pending_push_notifications, pubsub_results)
                popped == pop_first_message(drained.notifications)
            IN /\ ~pubsub_lock
               /\ pubsub_lock' = held_after_finally(drained.raised # "none")
               /\ pubsub_results' = drained.waiters
               /\ IF drained.raised # "none"
                  THEN /\ pending_push_notifications' = drained.notifications
                       /\ lastCall' = Call("try_get_pubsub_message", drained.raised)
                       /\ UNCHANGED pulled
                  ELSE /\ pending_push_notifications' = popped.notifications
                       /\ pulled' = IF popped.msg # NoMsg
                                    THEN Append(pulled, popped.msg) ELSE pulled
                       /\ lastCall' = Call("try_get_pubsub_message",
                                           IF popped.msg # NoMsg THEN "message"
                                           ELSE "nothing")
               /\ UNCHANGED <<callback_calls, arrived>>
    /\ UNCHANGED <<lifecycleVars, tableVars, writerVars, engineVars, configVars,
                   nPush, nSubmit>>
    /\ UNCHANGED demuxVars

\* get_pubsub_message up to its suspension: the checks, _get_result(0), the
\* registration of the waiter and the drain.
GetPubsubMessage ==
    /\ phase = "ready"
    /\ nPull < workload.pulls
    /\ nPull' = nPull + 1
    /\ IF PullPrecondition # "none"
       THEN /\ lastCall' = Call("get_pubsub_message", PullPrecondition)
            /\ UNCHANGED <<pubsubVars, tableVars>>
       ELSE LET handle == Len(results) + 1
                drained == complete_pubsub_results_safe(
                               pending_push_notifications,
                               Append(pubsub_results, handle))
            IN /\ results' = Append(results, NewResult("pull", 0, drained.raised = "none"))
               /\ pending_results' = get_result_table(pending_results, 0, handle)
               /\ ~pubsub_lock
               /\ pubsub_lock' = held_after_finally(drained.raised # "none")
               /\ pubsub_results' = drained.waiters
               /\ pending_push_notifications' = drained.notifications
               /\ lastCall' = Call("get_pubsub_message",
                                   IF drained.raised # "none" THEN drained.raised
                                   ELSE "awaiting")
               /\ UNCHANGED <<available_callback_indexes, callback_calls,
                              arrived, pulled>>
    /\ UNCHANGED <<lifecycleVars, writerVars, engineVars, configVars, nPush,
                   nSubmit>>
    /\ UNCHANGED demuxVars

\* ---------------------------------------------------------------- __aexit__
\* `if not result.is_done(): result.failure(ClosingError(err_message))`
FailIfNotDone(r) ==
    IF ~Result_is_done(r) THEN Result_failure(r, Val("ClosingError", CloseMsg))
    ELSE r

FailAll(res, handles) ==
    [i \in 1..Len(res) |-> IF i \in handles THEN FailIfNotDone(res[i]) ELSE res[i]]

\* __aexit__ up to its first suspension: _is_closed is set, the Results of
\* the table and then the pull waiters are failed, the stream is closed (a
\* socket stream closes before aclose suspends); without an exit stack the
\* last line raises AttributeError.
CloseBegin ==
    /\ phase \in {"ready", "failed"}
    /\ close_pc = "idle"
    /\ closeCount < MaxClose
    /\ closeCount' = closeCount + 1
    /\ is_closed' = TRUE
    /\ results' = FailAll(FailAll(results, DictValues(pending_results)),
                          SeqSet(pubsub_results))
    /\ ~pubsub_lock
    /\ pubsub_lock' = held_after_finally(FALSE)
    /\ stream' = IF stream = "none" THEN "none" ELSE "closed"
    /\ IF task_exitstack = "none"
       THEN /\ closeErr' = "AttributeError"
            /\ UNCHANGED close_pc
       ELSE /\ closeErr' = "none"
            /\ close_pc' = "exiting"
    /\ UNCHANGED <<phase, startErr, task_group, task_exitstack, demux,
                   pending_results, available_callback_indexes, writerVars,
                   engineVars, configVars, pubsub_results,
                   pending_push_notifications, callback_calls, arrived, pulled, countVars, lastCall>>
    /\ UNCHANGED demuxVars

TasksRunning == demux = "running" \/ spawned # {} \/ writer_lock

\* The exit stack leaves the task group once every task of it has ended; a
\* task that raised makes it raise.  An exit stack that was already left
\* does nothing.
CloseFinish ==
    /\ close_pc = "exiting"
    /\ ~TasksRunning
    /\ close_pc' = "idle"
    /\ task_exitstack' = "exited"
    /\ task_group' = "exited"
    /\ closeErr' = IF task_exitstack = "set" /\ task_group = "cancelled"
                   THEN "ExceptionGroup" ELSE "none"
    /\ UNCHANGED <<phase, startErr, stream, demux, is_closed, closeCount,
                   tableVars, writerVars, engineVars, configVars, pubsubVars,
                   countVars, lastCall>>
    /\ UNCHANGED demuxVars

\* ------------------------------------------------------------------- Next
Next ==
    \/ CreateUdsConnection
    \/ StartupFailsBeforeStream
    \/ StartHandshake
    \/ FinishHandshake
    \/ \E kind \in RequestKinds : Submit(kind)
    \/ \E e \in spawned : WriteOrBufferRequest(e)
    \/ WriteBufferedRequestsToSocket
    \/ \E e \in Unanswered : \E response \in RepliesTo(e) : ProcessResponse(e, response)
    \/ \E response \in PushFrames(nPush + 1) : ProcessPush(response)
    \/ TryGetPubsubMessage
    \/ GetPubsubMessage
    \/ DemuxEndOfStream
    \/ DemuxClosedResource
    \/ CloseBegin
    \/ CloseFinish

Spec == Init /\ [][Next]_vars

\* The same client under the wide runs.
InitWide ==
    /\ InitClientOn(WideWorkloads)
    /\ InitDemuxer
    /\ frames_in = <<>>
    /\ stream_in = <<>>

SpecWide == InitWide /\ [][Next]_vars

\* ------------------------------------------------ the writer on its own
\* Runs in which the application only submits commands and the engine only
\* answers OK, with more submit tasks than the other runs have; the engine
\* may close its end at any time.
MaxWriterRequests == 4

InitWriter ==
    /\ InitClientOn({[requests |-> MaxWriterRequests, pushes |-> 0, pulls |-> 0]})
    /\ InitDemuxer
    /\ frames_in = <<>>
    /\ stream_in = <<>>

NextWriter ==
    \/ CreateUdsConnection
    \/ StartHandshake
    \/ FinishHandshake
    \/ Submit("command")
    \/ \E e \in spawned : WriteOrBufferRequest(e)
    \/ WriteBufferedRequestsToSocket
    \/ \E e \in Unanswered :
          ProcessResponse(e, Response(e.idx, "constant_response", "none", e.rid))
    \/ DemuxEndOfStream

SpecWriter == InitWriter /\ [][NextWriter]_vars

\* The event loop runs every task that is ready, and a stream.send that
\* was started returns.
SpecWriterLive ==
    /\ SpecWriter
    /\ WF_vars(\E e \in spawned : WriteOrBufferRequest(e))
    /\ WF_vars(WriteBufferedRequestsToSocket)

\* ------------------------------------------------ requests on their own
\* Runs of a client without subscriptions: the application submits commands
\* and closes, and the engine answers with any reply frame.
InitRequests ==
    /\ InitClientOn({[requests |-> MaxRequests, pushes |-> 0, pulls |-> 0]})
    /\ InitDemuxer
    /\ frames_in = <<>>
    /\ stream_in = <<>>

NextRequests ==
    \/ CreateUdsConnection
    \/ StartupFailsBeforeStream
    \/ StartHandshake
    \/ FinishHandshake
    \/ Submit("command")
    \/ \E e \in spawned : WriteOrBufferRequest(e)
    \/ WriteBufferedRequestsToSocket
    \/ \E e \in Unanswered : \E response \in RepliesTo(e) : ProcessResponse(e, response)
    \/ DemuxEndOfStream
    \/ DemuxClosedResource
    \/ CloseBegin
    \/ CloseFinish

SpecRequests == InitRequests /\ [][NextRequests]_vars

\* ------------------------------------------------- pub/sub on its own
\* Runs in which the application only pulls messages and closes, and the
\* engine answers the handshake and sends push frames.
InitPubSub ==
    /\ InitClientOn({[requests |-> 0, pushes |-> MaxPush, pulls |-> MaxPulls]})
    /\ InitDemuxer
    /\ frames_in = <<>>
    /\ stream_in = <<>>

NextPubSub ==
    \/ CreateUdsConnection
    \/ StartupFailsBeforeStream
    \/ StartHandshake
    \/ FinishHandshake
    \/ \E e \in spawned : WriteOrBufferRequest(e)
    \/ WriteBufferedRequestsToSocket
    \/ \E e \in Unanswered : \E response \in RepliesTo(e) : ProcessResponse(e, response)
    \/ \E response \in PushFrames(nPush + 1) : ProcessPush(response)
    \/ TryGetPubsubMessage
    \/ GetPubsubMessage
    \/ DemuxEndOfStream
    \/ DemuxClosedResource
    \/ CloseBegin
    \/ CloseFinish

SpecPubSub == InitPubSub /\ [][NextPubSub]_vars

\* ------------------------------------------------ the frame codec (bytes)
\* A frame on the wire: a varint length, then that many payload bytes.
VarintBase == 128

\* The varint that encodes n < VarintBase * VarintBase.
EncodeVarint(n) ==
    IF n < VarintBase THEN <<n>>
    ELSE <<VarintBase + (n % VarintBase), n \div VarintBase>>

EncodeDelimited(payload) == EncodeVarint(Len(payload)) \o payload

\* The varint at 0-based position pos of buf: its value and the position
\* after it, or partial when the buffer ends inside it.
RECURSIVE DecodeVarint(_, _, _, _)
DecodeVarint(buf, pos, scale, acc) ==
    IF pos >= Len(buf) THEN [partial |-> TRUE, value |-> 0, pos |-> pos]
    ELSE LET b == buf[pos + 1]
         IN IF b < VarintBase
            THEN [partial |-> FALSE, value |-> acc + b * scale, pos |-> pos + 1]
            ELSE DecodeVarint(buf, pos + 1, scale * VarintBase,
                              acc + (b - VarintBase) * scale)

\* ProtobufCodec.decode_delimited: the message at offset and the offset after
\* it, or PartialMessageException when the header or the message is not whole.
decode_delimited(b_arr, offset) ==
    LET header == DecodeVarint(b_arr, offset, 1, 0)
    IN IF header.partial \/ header.pos + header.value > Len(b_arr)
       THEN [partial |-> TRUE, message |-> <<>>, offset |-> offset]
       ELSE [partial |-> FALSE,
             message |-> SubSeq(b_arr, header.pos + 1, header.pos + header.value),
             offset |-> header.pos + header.value]

\* A faulty variant: the bytes of the partial frame are dropped.
KeptRemainder_Dropped(read_bytes, offset) == <<>>

\* What is kept when decode_delimited raises PartialMessageException.
KeptRemainder(read_bytes, offset) == SubSeq(read_bytes, offset + 1, Len(read_bytes))

\* The inner loop of _stream_demuxer over one buffer: the frames dispatched
\* and the remainder kept for the next read.
RECURSIVE DemuxLoop(_, _, _, _)
DemuxLoop(read_bytes, offset, frames, remaining) ==
    IF offset <= Len(read_bytes)
    THEN LET d == decode_delimited(read_bytes, offset)
         IN IF d.partial
            THEN [frames |-> frames, remaining |-> KeptRemainder(read_bytes, offset)]
            ELSE DemuxLoop(read_bytes, d.offset, Append(frames, d.message), remaining)
    ELSE [frames |-> frames, remaining |-> remaining]

\* One iteration of the outer loop: the remainder is put before the bytes
\* read.
DemuxChunk(remaining, chunk) == DemuxLoop(remaining \o chunk, 0, <<>>, remaining)

\* ------------------------------------------- the demultiplexer over bytes
LongLen == 128
RECURSIVE Repeat(_, _)
Repeat(b, n) == IF n = 0 THEN <<>> ELSE <<b>> \o Repeat(b, n - 1)

\* Payloads of the frames of the input stream: empty, one byte, and one
\* whose length needs a two-byte varint.
Payloads ==
    {<<>>} \cup {<<b>> : b \in {0, 1, 2}} \cup {Repeat(b, LongLen) : b \in {0, 1}}

RECURSIVE FrameSeqs(_)
FrameSeqs(n) ==
    IF n = 0 THEN {<<>>}
    ELSE FrameSeqs(n - 1)
         \cup {Append(fs, f) : fs \in {x \in FrameSeqs(n - 1) : Len(x) = n - 1},
                               f \in Payloads}

RECURSIVE EncodeAll(_)
EncodeAll(fs) == IF fs = <<>> THEN <<>> ELSE EncodeDelimited(Head(fs)) \o EncodeAll(Tail(fs))

\* Sizes of the chunks receive returns.
ReadSizes == {1, 2, 3, 64, 127, 129, 130, 131}

InitDemux ==
    /\ InitClient
    /\ workload = [requests |-> MaxRequests, pushes |-> 0, pulls |-> 0]
    /\ ~pubsub_configured
    /\ InitDemuxer
    /\ frames_in \in FrameSeqs(MaxFrames)
    /\ \E cut \in 0..1 :
          stream_in = SubSeq(EncodeAll(frames_in), 1, Len(EncodeAll(frames_in)) - cut)

Received == SubSeq(stream_in, 1, nRead)

\* receive returns the next n bytes (fewer at the end of the input); the
\* demultiplexer decodes and dispatches what is whole.
DemuxRead(n) ==
    /\ nRead < Len(stream_in)
    /\ LET m == IF nRead + n > Len(stream_in) THEN Len(stream_in) - nRead ELSE n
           step == DemuxChunk(remaining_read_bytes,
                              SubSeq(stream_in, nRead + 1, nRead + m))
       IN /\ nRead' = nRead + m
          /\ dispatched' = dispatched \o step.frames
          /\ remaining_read_bytes' = step.remaining
    /\ UNCHANGED <<frames_in, stream_in>>
    /\ UNCHANGED clientVars

\* receive returns everything that is left in one chunk.
DemuxReadAll ==
    /\ nRead < Len(stream_in)
    /\ LET step == DemuxChunk(remaining_read_bytes,
                              SubSeq(stream_in, nRead + 1, Len(stream_in)))
       IN /\ nRead' = Len(stream_in)
          /\ dispatched' = dispatched \o step.frames
          /\ remaining_read_bytes' = step.remaining
    /\ UNCHANGED <<frames_in, stream_in>>
    /\ UNCHANGED clientVars

NextDemux ==
    \/ \E n \in ReadSizes : DemuxRead(n)
    \/ DemuxReadAll

SpecDemux == InitDemux /\ [][NextDemux]_vars

\* ================================================================ claims
Handles == 1..Len(results)
IsRequest(i) == results[i].kind = "request"
\* The caller is suspended in Result.wait.
Pending(i) == results[i].awaited /\ ~Result_is_done(results[i])

\* The outcome carries the payload or the message of a reply frame (not OK,
\* not None, and not the ClosingError of __aexit__).
FromReply(i) ==
    /\ Result_is_done(results[i])
    /\ Result_wait(results[i]).tag \notin {"OK", "None"}
    /\ Result_wait(results[i]).arg # CloseMsg

\* C1 (safety half): a request whose caller resumes with the content of a
\* reply frame resumes with the reply the engine sent for that very request,
\* never with the reply to another request.
C1_OwnReplyOnly ==
    \A i \in Handles : IsRequest(i) /\ FromReply(i) => Result_wait(results[i]).arg = i

\* C2: no two unresolved requests carry the same correlation id.
C2_PendingIdsDistinct ==
    \A i, j \in Handles :
        (i # j /\ IsRequest(i) /\ IsRequest(j) /\ Pending(i) /\ Pending(j))
            => results[i].idx # results[j].idx

\* A step in which __aexit__ is entered.
CloseStep == closeCount' = closeCount + 1

\* C3: when __aexit__ runs, every Result that is still unresolved (request
\* or pull waiter) is failed with ClosingError, so none stays suspended.
C3_CloseFailsAllUnresolved ==
    [][CloseStep =>
         \A i \in Handles :
            Pending(i) => /\ Result_is_done(results'[i])
                          /\ Result_wait(results'[i]).tag = "ClosingError"]_vars

\* A step in which one of the request methods is called.
SubmitStep == nSubmit' = nSubmit + 1

\* C4: once _is_closed is set, a call of any request method raises
\* ClosingError, registers no Result, takes no index and hands nothing to
\* the writer.
C4_ClosedRejectsEveryRequest ==
    [][(is_closed /\ SubmitStep) =>
         /\ lastCall'.outcome = "ClosingError"
         /\ UNCHANGED <<results, pending_results, available_callback_indexes,
                        spawned, buffered_requests, batch, sent>>]_vars

\* A step in which one of the pull methods is called.
PullStep == nPull' = nPull + 1

\* No pull waiter was ever registered.
NoPullWaiter == \A i \in Handles : results[i].kind # "pull"

\* C5: without callback and without pull waiter, each try_get_pubsub_message
\* returns the oldest deliverable message not returned yet, and nothing
\* once every message that arrived has been returned.
C5_PullsInArrivalOrder ==
    [][(PullStep /\ lastCall'.op = "try_get_pubsub_message" /\ ~is_closed
          /\ pubsub_configured /\ ~callback /\ NoPullWaiter) =>
         IF Len(pulled) < Len(arrived)
         THEN /\ lastCall'.outcome = "message"
              /\ pulled' = Append(pulled, arrived[Len(pulled) + 1])
         ELSE /\ lastCall'.outcome = "nothing"
              /\ pulled' = pulled]_vars

\* C5 witness: two messages arrived and were pulled in order, and a further
\* pull returned nothing.
C5_Witness ==
    /\ NoPullWaiter /\ ~callback /\ ~is_closed
    /\ Len(arrived) = 2 /\ pulled = arrived /\ nPull = 3
    /\ lastCall = Call("try_get_pubsub_message", "nothing")

\* C6: with a callback registered on an open connection, both pull methods
\* raise ConfigurationError and change neither the push queue, nor the pull
\* waiters, nor the pending-call table.
C6_CallbackExcludesPull ==
    [][(PullStep /\ callback /\ ~is_closed) =>
         /\ lastCall'.outcome = "ConfigurationError"
         /\ UNCHANGED <<pending_push_notifications, pubsub_results,
                        pending_results, results>>]_vars

\* C6 witness: get_pubsub_message was refused after the callback had been
\* invoked for two messages.
C6_Witness ==
    /\ callback /\ ~is_closed
    /\ lastCall = Call("get_pubsub_message", "ConfigurationError")
    /\ Len(callback_calls) = 2

\* C7: however the byte stream is split into reads, the frames dispatched
\* so far are the frames one read of the same bytes dispatches, they are the
\* frames the engine wrote, in order, and the bytes of the frame that is not
\* whole yet are all in the remainder.
C7_SplitReadsDispatchSameFrames ==
    /\ dispatched = DemuxChunk(<<>>, Received).frames
    /\ dispatched = SubSeq(frames_in, 1, Len(dispatched))
    /\ EncodeAll(dispatched) \o remaining_read_bytes = Received

\* C7 witness: after a frame was dispatched, a read ended inside the
\* two-byte length of the next frame.
C7_Witness ==
    /\ Len(dispatched) = 1
    /\ Len(remaining_read_bytes) = 1
    /\ remaining_read_bytes[1] >= VarintBase
    /\ nRead < Len(stream_in)

\* A step in which _process_response handles a frame.
ResponseStep == replied' # replied

C8_ErrorClass(type) ==
    CASE type = "Disconnect" -> "ConnectionError"
      [] type = "ExecAbort" -> "ExecAbortError"
      [] type = "Timeout" -> "TimeoutError"
      [] OTHER -> "RequestError"

\* C8: a request_error frame whose index has a pending call fails that call
\* with the class of its type and with its message, leaves every other
\* Result as it was, puts the index on the free list and leaves the
\* connection open.
C8_RequestErrorFailsOneWaiter ==
    [][(ResponseStep /\ lastResponse'.field = "request_error"
          /\ lastResponse'.callback_idx \in DOMAIN pending_results) =>
         LET idx == lastResponse'.callback_idx
             h == pending_results[idx]
         IN /\ Result_is_done(results'[h])
            /\ Result_wait(results'[h]) =
                  Val(C8_ErrorClass(lastResponse'.type), lastResponse'.arg)
            /\ \A i \in Handles \ {h} : results'[i] = results[i]
            /\ pending_results' = DictPop(pending_results, idx)
            /\ available_callback_indexes' = Append(available_callback_indexes, idx)
            /\ UNCHANGED <<is_closed, demux, stream, task_group>>]_vars

\* C8 witness: a Timeout error failed one request while another request is
\* still pending on the open connection.
C8_Witness ==
    /\ lastResponse.field = "request_error" /\ lastResponse.type = "Timeout"
    /\ \E i \in Handles :
          /\ IsRequest(i)
          /\ Result_wait(results[i]) = Val("TimeoutError", i)
    /\ \E j \in DictValues(pending_results) : IsRequest(j) /\ Pending(j)
    /\ demux = "running" /\ ~is_closed

\* C9: __aexit__ called again after it completed, or called after __aenter__
\* failed, raises nothing and leaves the connection closed.
C9_CloseIsSafe ==
    (closeCount >= 1 /\ close_pc = "idle" /\ (closeCount >= 2 \/ phase = "failed"))
        => (closeErr = "none" /\ is_closed)

\* C10: no Result is written more than once: neither success nor failure is
\* applied to a Result that is already done.
C10_ResultWrittenOnce == \A i \in Handles : results[i].writes <= 1

\* A step in which the demultiplexer meets a malformed frame: a reply whose
\* callback_idx has no Pending Call, or a push frame with closing_error or
\* without resp_pointer.
MalformedStep ==
    /\ demux = "running"
    /\ demux' = "ClosingError"
    /\ (replied' # replied \/ nPush' # nPush)

\* C11 (safety half): when the demultiplexer has met a malformed frame the
\* connection is closing: _is_closed is set, so that a call made right
\* after it is rejected as closed.
C11_MalformationClosesConnection == [][MalformedStep => is_closed']_vars

\* The envelopes appended and not written yet, oldest first: those of the
\* flush in progress, then those buffered behind it.
Unsent == batch \o buffered_requests

IsSuffix(s, t) == \E k \in 0..Len(t) : s = SubSeq(t, k + 1, Len(t))

\* C12: a step that writes to the stream writes the oldest unwritten
\* envelopes, in the order in which they were appended, and writes none a
\* second time; a step that does not write appends one new envelope behind
\* the unwritten ones, or changes nothing, or (only when the stream cannot
\* be written) loses unwritten envelopes.
C12_WritesInAppendOrder ==
    [][IF sent' # sent
       THEN /\ sent' \o Unsent' = sent \o Unsent
            /\ Len(sent') > Len(sent)
            /\ \A i, j \in 1..Len(sent') : i # j => sent'[i] # sent'[j]
       ELSE \/ Unsent' = Unsent
            \/ \E e \in spawned :
                  /\ Unsent' = Append(Unsent, e)
                  /\ e \notin SeqSet(sent \o Unsent)
            \/ ~StreamWritable /\ IsSuffix(Unsent', Unsent)]_vars

\* C12 witness: after an earlier flush, a flush is in progress while two
\* envelopes wait behind it.
C12_Witness ==
    /\ writer_lock
    /\ Len(sent) >= 1
    /\ Len(batch) >= 1
    /\ Len(buffered_requests) >= 2
    /\ StreamWritable

WriterHandles == 1..(MaxWriterRequests + 1)
Submitted(rid) == \E e \in spawned : e.rid = rid
Written(rid) == \E i \in 1..Len(sent) : sent[i].rid = rid

\* C13: while the stream can be written, the buffer is empty whenever the
\* writer lock is free, and every envelope handed to a submit task is
\* written to the stream, unless the stream stops being writable.
C13_NoEnvelopeStranded ==
    /\ []((~writer_lock /\ StreamWritable) => buffered_requests = <<>>)
    /\ \A rid \in WriterHandles :
          Submitted(rid) ~> (Written(rid) \/ ~StreamWritable)

\* C13 witness: the owner of the lock, having written its own envelope, is
\* writing two envelopes that other tasks appended meanwhile.
C13_Witness ==
    /\ StreamWritable
    /\ writer_lock
    /\ Len(batch) = 2
    /\ buffered_requests = <<>>
    /\ Len(sent) >= 2

\* A step in which a submit task finds the writer lock taken.
SubmitTaskMeetsLock ==
    /\ writer_lock
    /\ \E e \in spawned : spawned' = spawned \ {e}
    /\ UNCHANGED <<results, phase>>

\* C14: at most one task is inside stream.send; a submit task can always
\* run, whoever holds the lock; and one that finds the lock taken ends
\* after appending its envelope, without writing and without the lock.
C14_OneWriterNoWaiting ==
    /\ [](writing <= 1)
    /\ [](\A e \in spawned : ENABLED WriteOrBufferRequest(e))
    /\ [][SubmitTaskMeetsLock =>
            /\ \E e \in spawned :
                  /\ spawned' = spawned \ {e}
                  /\ buffered_requests' = Append(buffered_requests, e)
            /\ UNCHANGED <<writer_lock, writing, batch, sent>>]_vars

\* C14 witness: one task is inside stream.send, two envelopes were appended
\* by tasks that found the lock taken, and one more task is ready to run.
C14_Witness ==
    /\ writing = 1
    /\ writer_lock
    /\ Len(buffered_requests) = 2
    /\ spawned # {}
    /\ StreamWritable

\* The handshake Result has been written by a frame of the engine.
HandshakeAnswered == Len(results) >= 1 /\ 1 \in replied

\* C15: the client is Ready only when the handshake was answered with OK,
\* and a startup that received any other answer to the handshake has failed
\* with ClosingError.
C15_ReadyOnlyAfterOkHandshake ==
    /\ phase = "ready" => (HandshakeAnswered /\ Result_wait(HandshakeResult) = OK)
    /\ (phase = "failed" /\ HandshakeAnswered) => startErr = "ClosingError"

\* C16: when the read of the demultiplexer reports end-of-stream, the
\* demultiplexer raises ClosingError if _is_closed is not set, and leaves its
\* loop without raising if it is set.
C16_EndOfStreamAfterShutdownIsClean ==
    [][DemuxEndOfStream =>
         IF is_closed THEN demux' = "exited" ELSE demux' = "ClosingError"]_vars

\* The kinds of push frame that carry a deliverable message, and the message
\* the n-th frame of such a kind carries.
DeliverableKinds == {"Message", "PMessage", "SMessage"}
Deliverable(frame) == frame.resp_pointer /\ ~frame.closing_error
                      /\ frame.kind \in DeliverableKinds
MessageOf(frame, n) ==
    PubSubMsg(Payload(n), Channel,
              IF frame.kind = "PMessage" THEN Pattern ELSE NoPattern)

\* C17: while a callback is registered, a well-formed push frame that carries
\* a deliverable message invokes the callback once with that message, after
\* the calls for the earlier frames, and a well-formed frame of any other
\* kind invokes nothing; in both cases the push queue and the pull waiters
\* stay as they were.
C17_CallbackInvokedOncePerMessage ==
    [][\A frame \in PushFrames(nPush + 1) :
         (ProcessPush(frame) /\ callback /\ ~PushMalformed(frame)) =>
            /\ callback_calls' = IF Deliverable(frame)
                                 THEN Append(callback_calls,
                                             MessageOf(frame, nPush + 1))
                                 ELSE callback_calls
            /\ UNCHANGED <<pending_push_notifications, pubsub_results>>]_vars

\* C17 witness: of two push frames the first carried no message and the
\* second a pattern message, and the callback was invoked for the second only.
C17_Witness ==
    /\ callback /\ nPush = 2
    /\ callback_calls = <<PubSubMsg(Payload(2), Channel, Pattern)>>
    /\ pending_push_notifications = <<>> /\ pubsub_results = <<>>

\* The Results of get_pubsub_message, in the order of their registration.
PullWaiters == SelectSeq([h \in 1..Len(results) |-> h],
                         LAMBDA h : results[h].kind = "pull")
\* The frames of the push queue that carry a deliverable message.
QueuedMessages == SelectSeq(pending_push_notifications, Deliverable)
\* The deliverable messages that have left the push queue and were not
\* returned by try_get_pubsub_message, in arrival order.
ToWaiters == SelectSeq(SubSeq(arrived, 1, Len(arrived) - Len(QueuedMessages)),
                       LAMBDA m : m \notin SeqSet(pulled))

\* C18: without callback, the k-th waiter registered by get_pubsub_message is
\* resolved with the k-th deliverable message handed to waiters and its
\* caller resumes with that message, whether the message arrived before or
\* after the registration; a waiter without message stays registered, and no
\* deliverable message stays queued while a waiter is registered.
C18_WaitersResolvedInOrder ==
    ~callback =>
      /\ pubsub_results # <<>> => QueuedMessages = <<>>
      /\ \A k \in 1..Len(PullWaiters) :
           LET r == results[PullWaiters[k]]
           IN IF k <= Len(ToWaiters)
              THEN /\ Result_is_done(r) /\ r.awaited
                   /\ Result_wait(r).tag = "PubSubMsg"
                   /\ Result_wait(r).arg = ToWaiters[k]
              ELSE PullWaiters[k] \in SeqSet(pubsub_results)

\* A step in which a call took a correlation id for a new Pending Call.
AllocStep == /\ Len(results') = Len(results) + 1
             /\ results'[Len(results')].kind # "pull"
AllocatedId == results'[Len(results')].idx

\* C19: a call takes the id freed last and removes it from the free list when
\* the free list is not empty, and the number of entries of the pending-call
\* table otherwise; and the free list grows only by the id of a Pending Call
\* that the same step popped from the table.
C19_IdAllocationPolicy ==
    /\ [][AllocStep =>
            IF available_callback_indexes # <<>>
            THEN /\ AllocatedId =
                      available_callback_indexes[Len(available_callback_indexes)]
                 /\ available_callback_indexes' =
                      SubSeq(available_callback_indexes, 1,
                             Len(available_callback_indexes) - 1)
            ELSE /\ AllocatedId = Cardinality(DOMAIN pending_results)
                 /\ available_callback_indexes' = <<>>]_vars
    /\ [][Len(available_callback_indexes') > Len(available_callback_indexes) =>
            \E idx \in DOMAIN pending_results :
               /\ available_callback_indexes' =
                     Append(available_callback_indexes, idx)
               /\ idx \notin DOMAIN pending_results']_vars

\* C19 witness: the third call took the table size, 1, as a fresh id; the
\* fourth call reused id 1 after the reply to the third had freed it; id 0,
\* freed by the reply to the second call, is on the free list.
C19_Witness ==
    /\ Len(results) = 4
    /\ results[3].idx = 1 /\ results[4].idx = 1
    /\ pending_results = (1 :> 4)
    /\ available_callback_indexes = <<0>>
    /\ replied = {1, 2, 3}

\* C20: a reply frame that carries closing_error and whose index has a
\* Pending Call fails that call with ClosingError carrying the message of the
\* frame; the demultiplexer keeps running, and every other Pending Call keeps
\* its slot and its Result as they were.
C20_ClosingErrorReplyFailsOneCall ==
    [][(ResponseStep /\ lastResponse'.field = "closing_error"
          /\ lastResponse'.callback_idx \in DOMAIN pending_results) =>
         LET idx == lastResponse'.callback_idx
             h == pending_results[idx]
         IN /\ Result_is_done(results'[h])
            /\ Result_wait(results'[h]) = Val("ClosingError", lastResponse'.arg)
            /\ demux' = "running"
            /\ \A j \in DOMAIN pending_results \ {idx} :
                  /\ j \in DOMAIN pending_results'
                  /\ pending_results'[j] = pending_results[j]
            /\ \A i \in Handles \ {h} : results'[i] = results[i]]_vars

\* C20 witness: of two pending calls one was failed by a closing_error reply,
\* and the other is still pending on a running demultiplexer.
C20_Witness ==
    /\ demux = "running" /\ ~is_closed
    /\ lastResponse.field = "closing_error"
    /\ \E h \in Handles :
          /\ IsRequest(h)
          /\ Result_wait(results[h]) = Val("ClosingError", lastResponse.arg)
          /\ h \notin DictValues(pending_results)
    /\ \E j \in DOMAIN pending_results :
          IsRequest(pending_results[j]) /\ Pending(pending_results[j])

\* C21: the push dispatcher lock and the writer lock are held only while
\* their protected operation runs: once push delivery, a pull, the
\* registration of a pull waiter or a flush has ended, having raised or not,
\* the lock is free; the writer lock is held exactly while a flush is in
\* progress.
C21_LocksReleased ==
    /\ ~pubsub_lock
    /\ writer_lock <=> writing >= 1

\* C21 witness: the drain of a push delivery raised inside the
\* demultiplexer after it had popped a registered pull waiter, the handshake
\* flush has ended, and both locks are free.
C21_Witness ==
    /\ ~pubsub_lock /\ ~writer_lock
    /\ demux = "AttributeError"
    /\ \E i \in Handles : results[i].kind = "pull" /\ i \notin SeqSet(pubsub_results)
    /\ nPush >= 1 /\ Len(sent) = 1

\* C22: on a closed connection both pull methods raise ConfigurationError,
\* register no pull waiter and remove no queued message.
C22_ClosedPullIsConfigurationError ==
    [][(PullStep /\ is_closed) =>
         /\ lastCall'.outcome = "ConfigurationError"
         /\ UNCHANGED <<pubsub_results, pending_push_notifications>>]_vars

\* C23: a call of get_pubsub_message leaves the pending-call table as it was:
\* no entry is added and no entry is replaced, under any index.
C23_PullLeavesTableUnchanged ==
    [][(PullStep /\ lastCall'.op = "get_pubsub_message") =>
         UNCHANGED pending_results]_vars

====
